---------------------------- MODULE Spec2Model ----------------------------
(***************************************************************************)
(* The legacy-renderer backend of react-devtools-experimental             *)
(* (src/backend/legacy/renderer.js with src/backend/legacy/utils.js):     *)
(* identifier registry, interception of the host's entry points, the      *)
(* pending operation buffer, the flush and the deferred-flush timers.     *)
(***************************************************************************)
EXTENDS Integers, Sequences, FiniteSets, TLC

(***************************************************************************)
(* Bounds of the model.                                                    *)
(***************************************************************************)
\* Largest id getUID may hand out in a run.
MaxUID == 6
\* Largest number of operations recorded in the pending buffer at once.
MaxPending == 3
\* Largest number of buffers handed to hook.emit in a run.
MaxEmits == 2
\* Largest number of setTimeout calls in a run.
MaxTimers == 2
\* Largest number of setInProps/setInState/setInContext calls in a run.
MaxMutations == 1

(***************************************************************************)
(* Program constants and the arguments of attach.                          *)
(***************************************************************************)
TREE_OPERATION_ADD == 1
TREE_OPERATION_REMOVE == 2
ElementTypeClass == 1
ElementTypeOtherOrUnknown == 8
ElementTypeRoot == 10
rendererID == 7

(***************************************************************************)
(* The host tree: internal instances, their _hostParent link, their       *)
(* children and their _currentElement.  NullInst stands for a null or     *)
(* undefined reference (a Map accepts it as a key like any other value).  *)
(***************************************************************************)
NullInst == "null"
RootInst == {"R", "S"}
Inst == {"R", "S", "H", "A"}
InstKey == Inst \cup {NullInst}

\* internalInstance._hostParent
HostParent == [n \in Inst |-> CASE n = "A" -> "H" [] OTHER -> NullInst]

\* typeof internalInstance._currentElement.type: "string", "function", "text"
\* (another type, with a string _stringText), "other" (any other type), or
\* "none" when _currentElement is null or undefined
ElementKind ==
  [n \in Inst |-> CASE n = "H" -> "string" [] OTHER -> "function"]

\* internalInstance._currentElement.key as a string of code points (<<>>: no key)
ElementKey == [n \in Inst |-> CASE n = "A" -> <<233>> [] OTHER -> <<>>]

\* internalInstance._currentElement._owner
ElementOwner ==
  [n \in Inst |-> CASE n = "A" -> "R" [] n = "S" -> "R" [] OTHER -> NullInst]

\* The name of the element's type, as a string of code points
TypeName ==
  [n \in Inst |-> CASE n = "A" -> <<65>> [] n = "H" -> <<100>> [] OTHER -> <<>>]

\* getChildren(internalInstance): the instance's children, in order
getChildren(n) ==
  CASE n = "R" -> <<"H">> [] n = "H" -> <<"A">> [] OTHER -> <<>>

\* getDisplayName(type): the type's name, 'Unknown' when it has none
getDisplayName(n) ==
  IF TypeName[n] = <<>> THEN <<85, 110, 107, 110, 111, 119, 110>> ELSE TypeName[n]

(***************************************************************************)
(* Maps as functions.                                                      *)
(***************************************************************************)
EmptyMap == [x \in {} |-> 0]
MapSet(m, k, v) == [x \in (DOMAIN m) \cup {k} |-> IF x = k THEN v ELSE m[x]]
MapDelete(m, k) == [x \in (DOMAIN m) \ {k} |-> m[x]]

(***************************************************************************)
(* JavaScript values held by the host nodes: undefined, a number, or an    *)
(* object with its own properties.                                         *)
(***************************************************************************)
Undef == [t |-> "undef", v |-> 0, m |-> EmptyMap]
Prim(n) == [t |-> "prim", v |-> n, m |-> EmptyMap]
Obj(m) == [t |-> "obj", v |-> 0, m |-> m]

\* ToBoolean(x)
Truthy(x) == x.t = "obj" \/ (x.t = "prim" /\ x.v # 0)

\* x[k] for an x that is not null or undefined
Get(x, k) == IF x.t = "obj" /\ k \in DOMAIN x.m THEN x.m[k] ELSE Undef

\* The container every props, state and context object of the host tree starts as:
\* { a: { b: 1 }, c: 1 }
Container0 ==
  Obj(MapSet(MapSet(EmptyMap, "a", Obj(MapSet(EmptyMap, "b", Prim(1)))), "c", Prim(1)))

\* internalInstance._currentElement.props, internalInstance.state and
\* internalInstance.context
InitProps == [n \in Inst |-> Container0]
InitState == [n \in Inst |-> Container0]
InitContext == [n \in Inst |-> Container0]

\* typeof internalInstance.forceUpdate === 'function'
NodeForceUpdate == [n \in Inst |-> TRUE]
\* typeof internalInstance.updater.enqueueForceUpdate === 'function'
NodeUpdater == [n \in Inst |-> TRUE]
\* internalInstance._internalInstance: a handle of the node itself, or undefined
Undefined == "undefined"
NodeInternalInstance == [n \in Inst |-> n]

(***************************************************************************)
(* utils: utfEncodeString (UTF-8 of a string of code points below 2048)   *)
(* and the coercion of a value stored into a Uint32Array.                  *)
(***************************************************************************)
RECURSIVE utfEncodeString(_)
utfEncodeString(s) ==
  IF s = <<>> THEN <<>>
  ELSE LET c == Head(s) IN
       (IF c < 128 THEN <<c>>
        ELSE <<192 + (c \div 64), 128 + (c % 64)>>)
       \o utfEncodeString(Tail(s))

\* An object stored into a Uint32Array element is ToNumber(object) = NaN, hence 0.
ObjectToUint32(o) == 0


(***************************************************************************)
(* State.                                                                  *)
(***************************************************************************)
VARIABLES
  hostFns,                 \* the renderer object: each entry point's current function
  oldReconcilerMethods,    \* attach's saved originals (NoFns: null)
  oldRenderRoot,
  oldRenderComponent,
  internalInstanceToIDMap,
  idToInternalInstanceMap,
  rootIDSet,
  uidCounter,              \* getUID's counter
  pendingOperations,       \* the Uint32Array of words not yet flushed
  rootIDToTimeoutIDMap,
  timers,                  \* the event loop's outstanding setTimeout callbacks
  nextTimeoutID,
  emitted,                 \* the buffer of the last hook.emit('operations', buffer)
  emitCount,               \* the number of hook.emit('operations', ...) calls so far
  mounted,                 \* the host tree: instances the host has mounted
  unmounted,               \* the host tree: instances the host has unmounted and discarded
  rendered,                \* the host tree: roots returned by the root-render entry point
  lastCall,                \* what the caller of the last host entry point observed
  cleanedUp,               \* cleanup() has been called
  windowMounts,            \* ids that received a mount notification since the last flush
  cancelled,               \* ids mounted and then unmounted since the last flush
  cancelledAtEmit,         \* the value of cancelled when the last buffer was emitted
  windowUnmounts,          \* ids of registered non-root nodes, not mounted since the
                           \* last flush, that received an unmount notification since
  unmountsAtEmit,          \* the value of windowUnmounts when the last buffer was emitted
  unflushed,               \* operations recorded so far minus operations emitted so far
  liveIDs,                 \* ids whose last event in the buffers emitted so far is an Add
  streamOK,                \* no emitted Add found its id live, no Remove found it not live
  superseded,              \* timers outstanding when their root was flushed synchronously
  nodeProps,               \* the host tree: each instance's _currentElement.props
  nodeState,               \* the host tree: each instance's state
  nodeContext,             \* the host tree: each instance's context
  lastMutation,            \* what the last setInProps/setInState/setInContext call did
  mutationCount,           \* the number of setInProps/setInState/setInContext calls so far
  nativeCaps,              \* the renderer object: which lookup services it has
  getInternalIDFromNative, \* attach's lookup function, by the branch that assigned it
  getNativeFromInternal,
  lastLookup               \* what the caller of the last lookup function observed

vars ==
  <<hostFns, oldReconcilerMethods, oldRenderRoot, oldRenderComponent,
    internalInstanceToIDMap, idToInternalInstanceMap, rootIDSet, uidCounter,
    pendingOperations, rootIDToTimeoutIDMap, timers, nextTimeoutID, emitted,
    emitCount,
    mounted, unmounted, rendered, lastCall, cleanedUp, windowMounts, cancelled,
    cancelledAtEmit, windowUnmounts, unmountsAtEmit, unflushed, liveIDs,
    streamOK, superseded, nodeProps, nodeState, nodeContext,
    lastMutation, mutationCount, nativeCaps, getInternalIDFromNative,
    getNativeFromInternal, lastLookup>>

mutVars == <<nodeProps, nodeState, nodeContext, lastMutation, mutationCount>>
nativeVars ==
  <<nativeCaps, getInternalIDFromNative, getNativeFromInternal, lastLookup>>

\* The engine's own state, threaded through the functions of attach's closure.
EngineState ==
  [internalInstanceToIDMap |-> internalInstanceToIDMap,
   idToInternalInstanceMap |-> idToInternalInstanceMap,
   rootIDSet |-> rootIDSet,
   uidCounter |-> uidCounter,
   pendingOperations |-> pendingOperations,
   emits |-> <<>>]

(***************************************************************************)
(* Identifier registry.                                                    *)
(***************************************************************************)
\* getUID(): the next value of a process-wide counter
getUID(st) == st.uidCounter + 1

\* getID without the has() test: a new id on every call
getID_AlwaysAllocates(st, internalInstance) ==
  LET id == getUID(st) IN
  [st EXCEPT
     !.uidCounter = id,
     !.internalInstanceToIDMap = MapSet(@, internalInstance, id),
     !.idToInternalInstanceMap = MapSet(@, id, internalInstance)]

\* getID taking the size of the registry, not getUID(), as the new id
getID_SizeAsID(st, internalInstance) ==
  IF internalInstance \notin DOMAIN st.internalInstanceToIDMap
  THEN LET id == Cardinality(DOMAIN st.internalInstanceToIDMap) + 1 IN
       [st EXCEPT
          !.uidCounter = getUID(st),
          !.internalInstanceToIDMap = MapSet(@, internalInstance, id),
          !.idToInternalInstanceMap = MapSet(@, id, internalInstance)]
  ELSE st

\* The state after getID(internalInstance)
getID(st, internalInstance) ==
  IF internalInstance \notin DOMAIN st.internalInstanceToIDMap
  THEN LET id == getUID(st) IN
       [st EXCEPT
          !.uidCounter = id,
          !.internalInstanceToIDMap = MapSet(@, internalInstance, id),
          !.idToInternalInstanceMap = MapSet(@, id, internalInstance)]
  ELSE st

\* The value getID(internalInstance) returns, read in the state after the call
idOf(st, internalInstance) == st.internalInstanceToIDMap[internalInstance]

\* list.map(getID): getID of each element in order
RECURSIVE mapGetID(_, _)
mapGetID(st, list) ==
  IF list = <<>> THEN st ELSE mapGetID(getID(st, Head(list)), Tail(list))

(***************************************************************************)
(* The pending operation buffer and the flush.                             *)
(***************************************************************************)
addOperation(st, newAction, addToStartOfQueue) ==
  [st EXCEPT !.pendingOperations =
     IF addToStartOfQueue THEN newAction \o @ ELSE @ \o newAction]

\* flushPendingEvents adding the header at the end of the queue
flushPendingEvents_HeaderAtEnd(st, root) ==
  LET st1 == getID(st, root)
      st2 == addOperation(st1, <<rendererID, idOf(st1, root)>>, FALSE)
  IN [st2 EXCEPT
        !.emits = Append(@, st2.pendingOperations),
        !.pendingOperations = <<>>]

\* flushPendingEvents without the final reset of pendingOperations
flushPendingEvents_KeepsPending(st, root) ==
  LET st1 == getID(st, root)
      st2 == addOperation(st1, <<rendererID, idOf(st1, root)>>, TRUE)
  IN [st2 EXCEPT !.emits = Append(@, st2.pendingOperations)]

\* flushPendingEvents that resets pendingOperations to what was pending
flushPendingEvents_KeepsOperations(st, root) ==
  LET st1 == getID(st, root)
      st2 == addOperation(st1, <<rendererID, idOf(st1, root)>>, TRUE)
  IN [st2 EXCEPT
        !.emits = Append(@, st2.pendingOperations),
        !.pendingOperations = st1.pendingOperations]

flushPendingEvents(st, root) ==
  LET st1 == getID(st, root)
      st2 == addOperation(st1, <<rendererID, idOf(st1, root)>>, TRUE)
  IN [st2 EXCEPT
        !.emits = Append(@, st2.pendingOperations),
        !.pendingOperations = <<>>]

(***************************************************************************)
(* getData and the recording of mounts and unmounts.                       *)
(***************************************************************************)
\* getData(internalInstance): hasDisplayName and hasKey tell a string from null
getData(internalInstance) ==
  LET kind == ElementKind[internalInstance]
      named == kind \in {"function", "other"}
      keyed == kind # "none" /\ ElementKey[internalInstance] # <<>>
  IN
  [displayName |-> IF named THEN getDisplayName(internalInstance) ELSE <<>>,
   hasDisplayName |-> named,
   key |-> IF keyed THEN ElementKey[internalInstance] ELSE <<>>,
   hasKey |-> keyed,
   type |->
     IF kind = "function" THEN ElementTypeClass ELSE ElementTypeOtherOrUnknown]

shouldFilterNode(internalInstance) == FALSE

\* The five words of an Add operation of a root
rootOperation(id, internalInstance) ==
  <<TREE_OPERATION_ADD, id, ElementTypeRoot, 0,
    IF ElementKind[internalInstance] # "none" /\ ElementOwner[internalInstance] # NullInst
    THEN 1 ELSE 0>>

\* The words of an Add operation of a node that is not a root
nodeOperation(id, parentID, internalInstance) ==
  LET data == getData(internalInstance)
      ownerID == IF /\ ElementKind[internalInstance] # "none"
                    /\ ElementOwner[internalInstance] # NullInst
                 THEN ObjectToUint32(ElementOwner[internalInstance])
                 ELSE 0
      encodedDisplayName ==
        IF data.hasDisplayName THEN utfEncodeString(data.displayName) ELSE <<>>
      encodedKey == IF data.hasKey THEN utfEncodeString(data.key) ELSE <<>>
  IN <<TREE_OPERATION_ADD, id, data.type, parentID, ownerID,
       Len(encodedDisplayName)>>
     \o encodedDisplayName \o <<Len(encodedKey)>> \o encodedKey

recordMount(st, internalInstance) ==
  LET st1 == getID(st, internalInstance)
      id == idOf(st1, internalInstance)
      isRoot == id \in st1.rootIDSet
      \* the console.log line: getID of the parent link and of every child
      st2 == getID(st1, HostParent[internalInstance])
      st3 == mapGetID(st2, getChildren(internalInstance))
  IN IF isRoot
     THEN addOperation(st3, rootOperation(id, internalInstance), TRUE)
     ELSE LET st4 == getID(st3, HostParent[internalInstance])
              parentID == idOf(st4, HostParent[internalInstance])
          IN addOperation(st4, nodeOperation(id, parentID, internalInstance), TRUE)

\* recordUnmount without the two delete calls at its end
recordUnmount_KeepsRegistry(st, internalInstance) ==
  LET st1 == getID(st, internalInstance)
      id == idOf(st1, internalInstance)
      isRoot == id \in st1.rootIDSet
      st2 == getID(st1, HostParent[internalInstance])
  IN IF isRoot
     THEN [st |-> addOperation(st2, <<TREE_OPERATION_REMOVE, id>>, FALSE),
           threw |-> TRUE]
     ELSE IF ~shouldFilterNode(internalInstance)
     THEN [st |-> addOperation(st2, <<TREE_OPERATION_REMOVE, id>>, FALSE),
           threw |-> FALSE]
     ELSE [st |-> st2, threw |-> FALSE]

\* recordUnmount: the state it leaves and whether it raised.  For a root,
\* isRoot is the boolean true and isRoot.delete(id) raises a TypeError
\* before the registry is released.
recordUnmount(st, internalInstance) ==
  LET st1 == getID(st, internalInstance)
      id == idOf(st1, internalInstance)
      isRoot == id \in st1.rootIDSet
      st2 == getID(st1, HostParent[internalInstance])
      release(s) ==
        [s EXCEPT
           !.idToInternalInstanceMap = MapDelete(@, id),
           !.internalInstanceToIDMap = MapDelete(@, internalInstance)]
  IN IF isRoot
     THEN [st |-> addOperation(st2, <<TREE_OPERATION_REMOVE, id>>, FALSE),
           threw |-> TRUE]
     ELSE IF ~shouldFilterNode(internalInstance)
     THEN [st |-> release(addOperation(st2, <<TREE_OPERATION_REMOVE, id>>, FALSE)),
           threw |-> FALSE]
     ELSE [st |-> release(st2), threw |-> FALSE]

(***************************************************************************)
(* Reading a buffer of words back into its operations (the remote side):  *)
(* the opcode first, then the fixed or length-prefixed shape it announces. *)
(***************************************************************************)
\* The number of words of the operation that starts at the head of words
opLength(words) ==
  IF words[1] = TREE_OPERATION_REMOVE THEN 2
  ELSE IF words[3] = ElementTypeRoot THEN 5
  ELSE 7 + words[6] + words[7 + words[6]]

decodeOne(words) ==
  IF words[1] = TREE_OPERATION_REMOVE
  THEN [op |-> "remove", id |-> words[2], type |-> 0, parentID |-> 0]
  ELSE IF words[3] = ElementTypeRoot
  THEN [op |-> "add", id |-> words[2], type |-> words[3], parentID |-> 0]
  ELSE [op |-> "add", id |-> words[2], type |-> words[3], parentID |-> words[4]]

\* The words hold the whole of their first operation
complete(words) ==
  /\ Len(words) >= 2
  /\ \/ words[1] = TREE_OPERATION_REMOVE
     \/ /\ Len(words) >= 5
        /\ \/ words[3] = ElementTypeRoot
           \/ /\ Len(words) >= 7
              /\ Len(words) >= 7 + words[6]
              /\ Len(words) >= opLength(words)

\* The operations of a sequence of words; reading stops at a truncated one
RECURSIVE decodeOperations(_)
decodeOperations(words) ==
  IF words = <<>> \/ ~complete(words) THEN <<>>
  ELSE <<decodeOne(words)>>
       \o decodeOperations(SubSeq(words, opLength(words) + 1, Len(words)))

\* The string of code points whose UTF-8 bytes (code points below 2048) are b
RECURSIVE utfDecodeString(_)
utfDecodeString(b) ==
  IF b = <<>> THEN <<>>
  ELSE IF b[1] < 128 THEN <<b[1]>> \o utfDecodeString(Tail(b))
  ELSE <<(b[1] - 192) * 64 + (b[2] - 128)>> \o utfDecodeString(Tail(Tail(b)))

\* A string read back from its length word and bytes: length 0 is absent
decodeString(len, bytes) ==
  IF len = 0 THEN [present |-> FALSE, chars |-> <<>>]
  ELSE [present |-> TRUE, chars |-> utfDecodeString(bytes)]

\* The tuple read from the words of an Add operation of a node that is not a
\* root: [ADD, id, type, parentID, ownerID, nameLen, name.., keyLen, key..]
decodeAddNode(words) ==
  LET nameLen == words[6]
      keyLen == words[7 + nameLen]
  IN [id |-> words[2],
      type |-> words[3],
      parentID |-> words[4],
      ownerID |-> [kind |-> "number", num |-> words[5], obj |-> NullInst],
      displayName |-> decodeString(nameLen, SubSeq(words, 7, 6 + nameLen)),
      key |-> decodeString(keyLen, SubSeq(words, 8 + nameLen, 7 + nameLen + keyLen))]

\* The operations of an emitted buffer, after its two-word header
bufferOperations(buffer) == decodeOperations(SubSeq(buffer, 3, Len(buffer)))

(***************************************************************************)
(* The host's entry points and their decoration (legacy/utils.js).         *)
(***************************************************************************)
ReconcilerMethods ==
  {"mountComponent", "performUpdateIfNecessary", "receiveComponent",
   "unmountComponent"}
RootRenderMethods == {"_renderNewRootComponent", "renderComponent"}

\* The entry points: <<object, attribute>>.  "Mixin" is renderer.Component.Mixin.
Slot ==
  ({"Mount"} \X RootRenderMethods) \cup ({"Reconciler", "Mixin"} \X ReconcilerMethods)

Absent == [kind |-> "absent", of |-> <<"", "">>]
Null == [kind |-> "null", of |-> <<"", "">>]
Original(slot) == [kind |-> "orig", of |-> slot]
Wrapper(slot) == [kind |-> "wrapper", of |-> slot]

\* The host shapes: which objects and root-render entry points the renderer has
HostShape ==
  [Component : BOOLEAN, Reconciler : BOOLEAN,
   renderNewRoot : BOOLEAN, renderComponent : BOOLEAN]

\* The renderer object before attach
hostBefore(shape) ==
  [s \in Slot |->
     IF \/ s[1] = "Mixin" /\ shape.Component
        \/ s[1] = "Reconciler" /\ shape.Reconciler
        \/ s = <<"Mount", "_renderNewRootComponent">> /\ shape.renderNewRoot
        \/ s = <<"Mount", "renderComponent">> /\ shape.renderComponent
     THEN Original(s) ELSE Absent]

\* decorate / decorateResult: obj[attr] becomes the wrapper, the old value is returned
decorate(fns, slot) == [fns EXCEPT ![slot] = Wrapper(slot)]

\* decorateMany(source, fns): the object after decorating each name of fns
decorateMany(fns, source, names) ==
  [s \in Slot |-> IF s[1] = source /\ s[2] \in names THEN Wrapper(s) ELSE fns[s]]

\* restoreMany(source, olds): source[name] = olds[name] for each name of olds
restoreMany(fns, source, olds) ==
  [s \in Slot |->
     IF s[1] = source /\ s[2] \in DOMAIN olds THEN olds[s[2]] ELSE fns[s]]

\* Which root-render entry point attach decorates ("": none)
wrappedRootRender(shape) ==
  IF shape.renderNewRoot THEN "_renderNewRootComponent"
  ELSE IF shape.renderComponent THEN "renderComponent"
  ELSE ""

\* The renderer object after attach
hostAfterAttach(shape) ==
  LET h0 == hostBefore(shape)
      h1 == IF wrappedRootRender(shape) # ""
            THEN decorate(h0, <<"Mount", wrappedRootRender(shape)>>)
            ELSE h0
  IN IF shape.Reconciler
     THEN decorateMany(h1, "Reconciler", ReconcilerMethods)
     ELSE h1

hasComponent == hostFns[<<"Mixin", "mountComponent">>].kind # "absent"
hasReconciler == hostFns[<<"Reconciler", "mountComponent">>].kind # "absent"

\* No setInProps, setInState or setInContext call has been made
NoMutation ==
  [op |-> "none", id |-> 0, outcome |-> "none", rerender |-> "none",
   installed |-> FALSE, previous |-> Undef]

\* The lookup services of a renderer: which of Mount.findNodeHandle,
\* Mount.nativeTagToRootNodeID, ComponentTree, Mount.getID and Mount.getNode
\* it has
HostCaps ==
  [findNodeHandle : BOOLEAN, nativeTagToRootNodeID : BOOLEAN,
   ComponentTree : BOOLEAN, getID : BOOLEAN, getNode : BOOLEAN]

\* React DOM 15: a ComponentTree, and Mount.getID and Mount.getNode
ReactDOMCaps ==
  [findNodeHandle |-> FALSE, nativeTagToRootNodeID |-> FALSE,
   ComponentTree |-> TRUE, getID |-> TRUE, getNode |-> TRUE]

\* The chain tried from its last branch to its first: the last match wins
selectLookups_LastMatch(caps) ==
  IF caps.getID /\ caps.getNode THEN "ReactDOM"
  ELSE IF caps.ComponentTree THEN "ComponentTree"
  ELSE IF caps.findNodeHandle /\ caps.nativeTagToRootNodeID THEN "ReactNative"
  ELSE "null"

\* The branch of attach's if / else if chain that assigns the two lookup
\* functions ("null": the final else, which leaves both null and warns)
selectLookups(caps) ==
  IF caps.findNodeHandle /\ caps.nativeTagToRootNodeID THEN "ReactNative"
  ELSE IF caps.ComponentTree THEN "ComponentTree"
  ELSE IF caps.getID /\ caps.getNode THEN "ReactDOM"
  ELSE "null"

NoLookup == [fn |-> "none", outcome |-> "none", hostThrew |-> FALSE]

\* The state attach leaves for a renderer of the given shape and lookup services
InitAttach(shape, caps) ==
    /\ nativeCaps = caps
    /\ getInternalIDFromNative = selectLookups(caps)
    /\ getNativeFromInternal = selectLookups(caps)
    /\ lastLookup = NoLookup
    /\ hostFns = hostAfterAttach(shape)
    /\ oldReconcilerMethods =
         IF shape.Reconciler
         THEN <<[m \in ReconcilerMethods |-> Original(<<"Reconciler", m>>)]>>
         ELSE <<>>
    /\ oldRenderRoot =
         IF shape.renderNewRoot
         THEN Original(<<"Mount", "_renderNewRootComponent">>) ELSE Null
    /\ oldRenderComponent =
         IF ~shape.renderNewRoot /\ shape.renderComponent
         THEN Original(<<"Mount", "renderComponent">>) ELSE Null
    /\ internalInstanceToIDMap = EmptyMap
    /\ idToInternalInstanceMap = EmptyMap
    /\ rootIDSet = {}
    /\ uidCounter = 0
    /\ pendingOperations = <<>>
    /\ rootIDToTimeoutIDMap = EmptyMap
    /\ timers = {}
    /\ nextTimeoutID = 1
    /\ emitted = <<>>
    /\ emitCount = 0
    /\ mounted = {}
    /\ unmounted = {}
    /\ rendered = {}
    /\ lastCall = [origCalls |-> 0, outcome |-> "none"]
    /\ cleanedUp = FALSE
    /\ windowMounts = {}
    /\ cancelled = {}
    /\ cancelledAtEmit = {}
    /\ windowUnmounts = {}
    /\ unmountsAtEmit = {}
    /\ unflushed = 0
    /\ liveIDs = {}
    /\ streamOK = TRUE
    /\ superseded = {}
    /\ nodeProps = InitProps
    /\ nodeState = InitState
    /\ nodeContext = InitContext
    /\ lastMutation = NoMutation
    /\ mutationCount = 0

\* The state attach leaves for a React DOM 15 renderer of the given shape
InitShape(shape) == InitAttach(shape, ReactDOMCaps)

Init == \E shape \in HostShape : InitShape(shape)

(***************************************************************************)
(* Actions: the host calls one of its entry points, or cleanup is called.  *)
(***************************************************************************)
\* The engine's variables take the values of st, and its emits reach the hook
SetEngine(st) ==
  /\ internalInstanceToIDMap' = st.internalInstanceToIDMap
  /\ idToInternalInstanceMap' = st.idToInternalInstanceMap
  /\ rootIDSet' = st.rootIDSet
  /\ uidCounter' = st.uidCounter
  /\ pendingOperations' = st.pendingOperations
  /\ emitted' = IF st.emits = <<>> THEN emitted ELSE st.emits[Len(st.emits)]
  /\ emitCount' = emitCount + Len(st.emits)

WithinBounds(st) ==
  /\ st.uidCounter <= MaxUID
  /\ Len(decodeOperations(st.pendingOperations)) <= MaxPending
  /\ emitCount + Len(st.emits) <= MaxEmits

engineVars ==
  <<internalInstanceToIDMap, idToInternalInstanceMap, rootIDSet, uidCounter,
    pendingOperations, emitted, emitCount>>
attachVars == <<oldReconcilerMethods, oldRenderRoot, oldRenderComponent, cleanedUp>>
timerVars == <<rootIDToTimeoutIDMap, timers, nextTimeoutID>>
windowVars == <<windowMounts, cancelled, cancelledAtEmit>>
streamVars == <<windowUnmounts, unmountsAtEmit, unflushed, liveIDs, streamOK>>

\* The emitted stream after one more event
streamStep(s, op) ==
  IF op.op = "add"
  THEN [live |-> s.live \cup {op.id}, ok |-> s.ok /\ op.id \notin s.live]
  ELSE IF op.op = "remove"
  THEN [live |-> s.live \ {op.id}, ok |-> s.ok /\ op.id \in s.live]
  ELSE s

RECURSIVE streamFold(_, _)
streamFold(s, ops) ==
  IF ops = <<>> THEN s ELSE streamFold(streamStep(s, Head(ops)), Tail(ops))

\* A buffer is emitted: the window of notifications closes; recorded is the
\* number of operations recorded in the same call
Emitted(buffer, recorded) ==
  LET s == streamFold([live |-> liveIDs, ok |-> streamOK], bufferOperations(buffer))
  IN /\ cancelledAtEmit' = cancelled
     /\ cancelled' = {}
     /\ windowMounts' = {}
     /\ unmountsAtEmit' = windowUnmounts
     /\ windowUnmounts' = {}
     /\ unflushed' = unflushed + recorded - Len(bufferOperations(buffer))
     /\ liveIDs' = s.live
     /\ streamOK' = s.ok

\* What the caller of a decorated entry point observes: the original is applied
\* once, then the notification runs, and an exception it raises propagates.
decoratedCall(threw) ==
  [origCalls |-> 1, outcome |-> IF threw THEN "threw" ELSE "returned"]

\* The host calls renderer.Reconciler.mountComponent(n, ...)
MountComponent(n) ==
  LET f == hostFns[<<"Reconciler", "mountComponent">>] IN
  /\ UNCHANGED <<mutVars, nativeVars>>
  /\ f.kind # "absent"
  /\ n \notin mounted \cup unmounted
  /\ mounted' = mounted \cup {n}
  /\ UNCHANGED <<hostFns, attachVars, timerVars, rendered, unmounted, cancelled,
                 cancelledAtEmit, superseded, windowUnmounts, unmountsAtEmit,
                 liveIDs, streamOK>>
  /\ \/ /\ f.kind = "orig"
        /\ UNCHANGED <<engineVars, lastCall, windowMounts, unflushed>>
     \/ /\ f.kind = "wrapper"
        /\ LET st == recordMount(EngineState, n) IN
           /\ WithinBounds(st)
           /\ SetEngine(st)
           /\ windowMounts' = windowMounts \cup {idOf(st, n)}
           /\ unflushed' = unflushed + 1
        /\ lastCall' = decoratedCall(FALSE)

\* The host calls renderer.Reconciler.unmountComponent(n)
UnmountComponent(n) ==
  LET f == hostFns[<<"Reconciler", "unmountComponent">>] IN
  /\ UNCHANGED <<mutVars, nativeVars>>
  /\ f.kind # "absent"
  /\ n \in mounted
  /\ mounted' = mounted \ {n}
  /\ unmounted' = unmounted \cup {n}
  /\ rendered' = rendered \ {n}
  /\ UNCHANGED <<hostFns, attachVars, timerVars, windowMounts, cancelledAtEmit,
                 superseded, unmountsAtEmit, liveIDs, streamOK>>
  /\ \/ /\ f.kind = "orig"
        /\ UNCHANGED <<engineVars, lastCall, cancelled, windowUnmounts, unflushed>>
     \/ /\ f.kind = "wrapper"
        /\ LET r == recordUnmount(EngineState, n)
               id == idOf(getID(EngineState, n), n)
           IN /\ WithinBounds(r.st)
              /\ SetEngine(r.st)
              /\ cancelled' =
                   IF id \in windowMounts THEN cancelled \cup {id} ELSE cancelled
              /\ windowUnmounts' =
                   IF /\ n \in DOMAIN internalInstanceToIDMap
                      /\ id \notin rootIDSet
                      /\ id \notin windowMounts
                   THEN windowUnmounts \cup {id} ELSE windowUnmounts
              /\ unflushed' = unflushed + 1
              /\ lastCall' = decoratedCall(r.threw)

\* The host calls renderer.Reconciler.performUpdateIfNecessary or receiveComponent
UpdateComponent(m, n) ==
  LET f == hostFns[<<"Reconciler", m>>] IN
  /\ UNCHANGED <<mutVars, nativeVars>>
  /\ f.kind # "absent"
  /\ n \in mounted
  /\ UNCHANGED <<hostFns, attachVars, timerVars, engineVars, windowVars,
                 streamVars, superseded, mounted, unmounted, rendered>>
  /\ \/ /\ f.kind = "orig"
        /\ UNCHANGED lastCall
     \/ /\ f.kind = "wrapper"
        /\ lastCall' = decoratedCall(FALSE)

\* The notification of the root-render entry points (renderer.js 116-126, 134-144)
rootRendered(st, internalInstance) ==
  LET st1 == getID(st, internalInstance)
      st2 == [st1 EXCEPT !.rootIDSet = @ \cup {idOf(st1, internalInstance)}]
      st3 == recordMount(st2, internalInstance)
  IN flushPendingEvents(st3, internalInstance)

\* The host calls renderer.Mount[e](...), which returns the root instance r
RootRender(e, r) ==
  LET f == hostFns[<<"Mount", e>>] IN
  /\ UNCHANGED <<mutVars, nativeVars>>
  /\ f.kind # "absent"
  /\ r \notin rendered
  /\ IF hasReconciler THEN r \in mounted ELSE r \notin mounted \cup unmounted
  /\ mounted' = mounted \cup {r}
  /\ rendered' = rendered \cup {r}
  /\ UNCHANGED <<hostFns, attachVars, timerVars, unmounted>>
  /\ \/ /\ f.kind = "orig"
        /\ UNCHANGED <<engineVars, lastCall, windowVars, streamVars, superseded>>
     \/ /\ f.kind = "wrapper"
        /\ LET st == rootRendered(EngineState, r) IN
           /\ WithinBounds(st)
           /\ SetEngine(st)
           /\ superseded' =
                superseded \cup {t.timeoutID : t \in {u \in timers : u.id = idOf(st, r)}}
           /\ Emitted(st.emits[Len(st.emits)], 1)
        /\ lastCall' = decoratedCall(FALSE)

\* The renderer object after cleanup()
cleanupHost(fns) ==
  LET h1 == IF oldReconcilerMethods # <<>>
            THEN IF fns[<<"Mixin", "mountComponent">>].kind # "absent"
                 THEN restoreMany(fns, "Mixin", oldReconcilerMethods[1])
                 ELSE restoreMany(fns, "Reconciler", oldReconcilerMethods[1])
            ELSE fns
      h2 == IF oldRenderRoot # Null
            THEN [h1 EXCEPT ![<<"Mount", "_renderNewRootComponent">>] = oldRenderRoot]
            ELSE h1
  IN IF oldRenderComponent # Null
     THEN [h2 EXCEPT ![<<"Mount", "renderComponent">>] = oldRenderComponent]
     ELSE h2

Cleanup ==
  /\ UNCHANGED <<mutVars, nativeVars>>
  /\ hostFns' = cleanupHost(hostFns)
  /\ oldReconcilerMethods' = <<>>
  /\ oldRenderRoot' = Null
  /\ oldRenderComponent' = Null
  /\ cleanedUp' = TRUE
  /\ UNCHANGED <<engineVars, timerVars, windowVars, streamVars, superseded, mounted,
                 unmounted, rendered, lastCall>>

Next ==
  \/ \E n \in Inst : MountComponent(n)
  \/ \E n \in Inst : UnmountComponent(n)
  \/ \E m \in {"performUpdateIfNecessary", "receiveComponent"}, n \in Inst :
       UpdateComponent(m, n)
  \/ \E e \in RootRenderMethods, r \in RootInst : RootRender(e, r)
  \/ Cleanup

Spec == Init /\ [][Next]_vars

\* The two roots and one host element under every host shape, with which the
\* root-render entry points are exercised
RenderInst == {"R", "S", "H"}

NextRender ==
  \/ \E n \in RenderInst : MountComponent(n)
  \/ \E n \in RenderInst : UnmountComponent(n)
  \/ \E e \in RootRenderMethods, r \in RootInst : RootRender(e, r)

SpecRender == Init /\ [][NextRender]_vars

(***************************************************************************)
(* The deferred flush.  No entry point of attach calls                    *)
(* queueFlushPendingEvents; SpecSched adds it as an operation of its own  *)
(* (called, while the engine is attached, for a root the host has         *)
(* mounted), with the timer callbacks it arms, to settle what it does     *)
(* when called.                                                            *)
(***************************************************************************)
\* queueFlushPendingEvents without the rootIDToTimeoutIDMap.has(id) test
QueueFlushPendingEvents_NoHasCheck(root) ==
  LET st == getID(EngineState, root)
      id == idOf(st, root)
  IN /\ UNCHANGED <<mutVars, nativeVars>>
     /\ ~cleanedUp
     /\ root \in mounted
     /\ WithinBounds(st)
     /\ SetEngine(st)
     /\ nextTimeoutID <= MaxTimers
     /\ timers' = timers \cup
          {[timeoutID |-> nextTimeoutID, id |-> id, root |-> root]}
     /\ rootIDToTimeoutIDMap' = MapSet(rootIDToTimeoutIDMap, id, nextTimeoutID)
     /\ nextTimeoutID' = nextTimeoutID + 1
     /\ UNCHANGED <<hostFns, attachVars, windowVars, streamVars, superseded, mounted,
                    unmounted, rendered, lastCall>>

QueueFlushPendingEvents(root) ==
  LET st == getID(EngineState, root)
      id == idOf(st, root)
  IN /\ UNCHANGED <<mutVars, nativeVars>>
     /\ ~cleanedUp
     /\ root \in mounted
     /\ WithinBounds(st)
     /\ SetEngine(st)
     /\ IF id \notin DOMAIN rootIDToTimeoutIDMap
        THEN /\ nextTimeoutID <= MaxTimers
             /\ timers' = timers \cup
                  {[timeoutID |-> nextTimeoutID, id |-> id, root |-> root]}
             /\ rootIDToTimeoutIDMap' = MapSet(rootIDToTimeoutIDMap, id, nextTimeoutID)
             /\ nextTimeoutID' = nextTimeoutID + 1
        ELSE UNCHANGED timerVars
     /\ UNCHANGED <<hostFns, attachVars, windowVars, streamVars, superseded, mounted,
                    unmounted, rendered, lastCall>>

\* The event loop runs the callback of timer t (renderer.js 221-224)
FireTimer(t) ==
  LET st == flushPendingEvents(EngineState, t.root) IN
  /\ UNCHANGED <<mutVars, nativeVars>>
  /\ t \in timers
  /\ WithinBounds(st)
  /\ timers' = timers \ {t}
  /\ rootIDToTimeoutIDMap' = MapDelete(rootIDToTimeoutIDMap, t.id)
  /\ SetEngine(st)
  /\ Emitted(st.emits[Len(st.emits)], 0)
  /\ UNCHANGED <<hostFns, attachVars, nextTimeoutID, superseded, mounted,
                 unmounted, rendered, lastCall>>

\* The tree of one root, with which the deferred flush is exercised
SchedRoots == {"R"}
SchedInst == {"R", "H", "A"}

NextSched ==
  \/ \E n \in SchedInst : MountComponent(n)
  \/ \E n \in SchedInst : UnmountComponent(n)
  \/ \E e \in RootRenderMethods, r \in SchedRoots : RootRender(e, r)
  \/ Cleanup
  \/ \E root \in SchedRoots : QueueFlushPendingEvents(root)
  \/ \E t \in timers : FireTimer(t)

\* React DOM 15: a Reconciler and Mount._renderNewRootComponent
ReactDOMShape ==
  [Component |-> FALSE, Reconciler |-> TRUE, renderNewRoot |-> TRUE,
   renderComponent |-> FALSE]

InitSched == InitShape(ReactDOMShape)

SpecSched == InitSched /\ [][NextSched]_vars

(***************************************************************************)
(* The state mutation interface: setInProps, setInState, setInContext.     *)
(***************************************************************************)
\* copyWithSet(obj, path, value): a copy of obj in which the chain of
\* containers along path is replaced and path holds value; an empty path
\* writes nothing
RECURSIVE copyWithSet(_, _, _)
copyWithSet(obj, path, value) ==
  IF path = <<>> THEN obj
  ELSE Obj(MapSet(IF obj.t = "obj" THEN obj.m ELSE EmptyMap,
                  Head(path),
                  IF Len(path) = 1 THEN value
                  ELSE copyWithSet(Get(obj, Head(path)), Tail(path), value)))

\* path.reduce((obj_, attr) => (obj_ ? obj_[attr] : null), obj)
RECURSIVE reducePath(_, _)
reducePath(obj, path) ==
  IF path = <<>> THEN obj
  ELSE reducePath(IF Truthy(obj) THEN Get(obj, Head(path)) ELSE Undef, Tail(path))

\* obj after the assignment of value to the property last of the object
\* that path leads to inside obj
RECURSIVE assignAt(_, _, _, _)
assignAt(obj, path, last, value) ==
  IF path = <<>> THEN Obj(MapSet(obj.m, last, value))
  ELSE Obj(MapSet(obj.m, Head(path),
                  assignAt(obj.m[Head(path)], Tail(path), last, value)))

\* setIn(obj, path, value): the object obj as the call leaves it, and whether
\* the call raised.  path.pop() of an empty path is undefined, which as a
\* property key is "undefined"; assigning a property of a number raises a
\* TypeError in module (strict) code.
setIn(obj, path, value) ==
  LET last == IF path = <<>> THEN "undefined" ELSE path[Len(path)]
      rest == IF path = <<>> THEN <<>> ELSE SubSeq(path, 1, Len(path) - 1)
      parent == reducePath(obj, rest)
  IN IF ~Truthy(parent) THEN [obj |-> obj, threw |-> FALSE]
     ELSE IF parent.t = "prim" THEN [obj |-> obj, threw |-> TRUE]
     ELSE [obj |-> assignAt(obj, rest, last, value), threw |-> FALSE]

\* forceUpdate(instance) of legacy/utils.js: which re-render of the host it
\* invokes, and whether it raised.  "undefinedThis": updater.enqueueForceUpdate
\* is called with the module function's this, which is undefined.
forceUpdate(instance) ==
  IF instance = Undefined THEN [rerender |-> "none", threw |-> TRUE]
  ELSE IF NodeForceUpdate[instance] THEN [rerender |-> "node", threw |-> FALSE]
  ELSE IF NodeUpdater[instance] THEN [rerender |-> "undefinedThis", threw |-> FALSE]
  ELSE [rerender |-> "none", threw |-> FALSE]

\* idToInternalInstanceMap.get(id)
lookup(id) ==
  IF id \in DOMAIN idToInternalInstanceMap THEN idToInternalInstanceMap[id]
  ELSE Undefined

isNullish(x) == x \in {NullInst, Undefined}

\* The test with no comparison: every looked-up value passes
resolves_NoCheck(internalInstance) == TRUE

\* internalInstance != null
resolves(internalInstance) == ~isNullish(internalInstance)

outcomeOf(threw) == IF threw THEN "threw" ELSE "returned"

\* The call returned at once: the id resolved to no node
noOp(op, id) ==
  [op |-> op, id |-> id, outcome |-> "returned", rerender |-> "none",
   installed |-> FALSE, previous |-> Undef]

\* The call raised a TypeError on reading a property of null or undefined
typeError(op, id) ==
  [op |-> op, id |-> id, outcome |-> "threw", rerender |-> "none",
   installed |-> FALSE, previous |-> Undef]

hostVars == <<hostFns, attachVars, timerVars, engineVars, windowVars, streamVars, superseded,
              mounted, unmounted, rendered, lastCall, nativeVars>>

SetInProps(id, path, value) ==
  LET internalInstance == lookup(id) IN
  /\ mutationCount < MaxMutations
  /\ mutationCount' = mutationCount + 1
  /\ UNCHANGED <<hostVars, nodeState, nodeContext>>
  /\ IF ~resolves(internalInstance)
     THEN lastMutation' = noOp("setInProps", id) /\ UNCHANGED nodeProps
     ELSE IF isNullish(internalInstance) \/ ElementKind[internalInstance] = "none"
     THEN lastMutation' = typeError("setInProps", id) /\ UNCHANGED nodeProps
     ELSE LET fu == forceUpdate(NodeInternalInstance[internalInstance]) IN
          /\ nodeProps' =
               [nodeProps EXCEPT ![internalInstance] = copyWithSet(@, path, value)]
          /\ lastMutation' =
               [op |-> "setInProps", id |-> id, outcome |-> outcomeOf(fu.threw),
                rerender |-> fu.rerender, installed |-> TRUE,
                previous |-> nodeProps[internalInstance]]

SetInState(id, path, value) ==
  LET internalInstance == lookup(id) IN
  /\ mutationCount < MaxMutations
  /\ mutationCount' = mutationCount + 1
  /\ UNCHANGED <<hostVars, nodeProps, nodeContext>>
  /\ IF ~resolves(internalInstance)
     THEN lastMutation' = noOp("setInState", id) /\ UNCHANGED nodeState
     ELSE IF isNullish(internalInstance)
     THEN lastMutation' = typeError("setInState", id) /\ UNCHANGED nodeState
     ELSE LET w == setIn(nodeState[internalInstance], path, value)
              \* internalInstance.forceUpdate()
              threw == w.threw \/ ~NodeForceUpdate[internalInstance]
          IN /\ nodeState' = [nodeState EXCEPT ![internalInstance] = w.obj]
             /\ lastMutation' =
                  [op |-> "setInState", id |-> id, outcome |-> outcomeOf(threw),
                   rerender |-> IF threw THEN "none" ELSE "node",
                   installed |-> FALSE, previous |-> w.obj]

SetInContext(id, path, value) ==
  LET internalInstance == lookup(id) IN
  /\ mutationCount < MaxMutations
  /\ mutationCount' = mutationCount + 1
  /\ UNCHANGED <<hostVars, nodeProps, nodeState>>
  /\ IF ~resolves(internalInstance)
     THEN lastMutation' = noOp("setInContext", id) /\ UNCHANGED nodeContext
     ELSE IF isNullish(internalInstance)
     THEN lastMutation' = typeError("setInContext", id) /\ UNCHANGED nodeContext
     ELSE LET w == setIn(nodeContext[internalInstance], path, value)
              fu == forceUpdate(internalInstance)
          IN /\ nodeContext' = [nodeContext EXCEPT ![internalInstance] = w.obj]
             /\ lastMutation' =
                  [op |-> "setInContext", id |-> id,
                   outcome |-> outcomeOf(w.threw \/ fu.threw),
                   rerender |-> IF w.threw THEN "none" ELSE fu.rerender,
                   installed |-> FALSE, previous |-> w.obj]

\* The ids, paths and values the remote side sends: the four ids the tree of
\* one root can be given (R, its null parent link, H, A) and one never handed out
MutID == 1..5
MutPath == {<<>>, <<"c">>, <<"a", "b">>, <<"z", "b">>, <<"c", "b">>}
MutValue == {Prim(2)}

\* The tree of one root, with which the mutation interface is exercised
MutInst == {"R", "A"}

NextMut ==
  \/ \E n \in MutInst : MountComponent(n)
  \/ \E n \in MutInst : UnmountComponent(n)
  \/ \E e \in RootRenderMethods, r \in SchedRoots : RootRender(e, r)
  \/ \E id \in MutID, path \in MutPath, value \in MutValue : SetInState(id, path, value)
  \/ \E id \in MutID, path \in MutPath, value \in MutValue : SetInContext(id, path, value)
  \/ \E id \in MutID, path \in MutPath, value \in MutValue : SetInProps(id, path, value)

SpecMut == InitSched /\ [][NextMut]_vars

(***************************************************************************)
(* The native lookups attach returns: getNativeFromInternal and            *)
(* getInternalIDFromNative, as assigned by the branch attach selected.     *)
(***************************************************************************)
\* What a lookup service of the host does when called: it returns a value,
\* returns nothing (null, undefined, ''), or raises
HostResult == {"value", "absent", "throw"}

\* The DOM nodes a lookup is asked about, and node.parentNode
DomNode == {"d1", "d2"}
NullNode == "null"
ParentNode == [d \in DomNode |-> IF d = "d2" THEN "d1" ELSE NullNode]

\* The while loop of the React DOM getInternalIDFromNative: hostGetID[n] is
\* what renderer.Mount.getID(n) does, id the result of the last call
RECURSIVE walkToID(_, _, _)
walkToID(node, id, hostGetID) ==
  IF id = "throw" THEN [outcome |-> "threw", hostThrew |-> TRUE]
  ELSE IF node # NullNode /\ ParentNode[node] # NullNode /\ id = "absent"
  THEN walkToID(ParentNode[node], hostGetID[ParentNode[node]], hostGetID)
  ELSE [outcome |-> id, hostThrew |-> FALSE]

\* A call that hands the host's result, or its exception, to the caller
passThrough(h) ==
  IF h = "throw" THEN [outcome |-> "threw", hostThrew |-> TRUE]
  ELSE [outcome |-> h, hostThrew |-> FALSE]

\* A call inside try { ... } catch (e) { return undefined; }
caught(h) ==
  IF h = "throw" THEN [outcome |-> "absent", hostThrew |-> TRUE]
  ELSE [outcome |-> h, hostThrew |-> FALSE]

\* Calling null as a function raises a TypeError
callOfNull == [outcome |-> "threw", hostThrew |-> FALSE]

lookupVars == <<nativeCaps, getInternalIDFromNative, getNativeFromInternal>>

\* getNativeFromInternal(component), the host's service doing h
GetNativeFromInternal(h) ==
  LET r == CASE getNativeFromInternal = "ReactNative" -> passThrough(h)
             [] getNativeFromInternal = "ComponentTree" -> passThrough(h)
             [] getNativeFromInternal = "ReactDOM" -> caught(h)
             [] OTHER -> callOfNull
  IN /\ lastLookup' = [fn |-> "getNativeFromInternal", outcome |-> r.outcome,
                        hostThrew |-> r.hostThrew]
     /\ UNCHANGED <<hostFns, attachVars, timerVars, engineVars, windowVars, streamVars,
                    superseded, mounted, unmounted, rendered, lastCall, mutVars,
                    lookupVars>>

\* getInternalIDFromNative(node), the host's service doing hostGetID[n] for n
GetInternalIDFromNative(node, hostGetID) ==
  LET r == CASE getInternalIDFromNative = "ReactNative" -> passThrough(hostGetID[node])
             [] getInternalIDFromNative = "ComponentTree" -> passThrough(hostGetID[node])
             [] getInternalIDFromNative = "ReactDOM" ->
                  walkToID(node, hostGetID[node], hostGetID)
             [] OTHER -> callOfNull
  IN /\ lastLookup' = [fn |-> "getInternalIDFromNative", outcome |-> r.outcome,
                        hostThrew |-> r.hostThrew]
     /\ UNCHANGED <<hostFns, attachVars, timerVars, engineVars, windowVars, streamVars,
                    superseded, mounted, unmounted, rendered, lastCall, mutVars,
                    lookupVars>>

NextNative ==
  \/ \E h \in HostResult : GetNativeFromInternal(h)
  \/ \E node \in DomNode \cup {NullNode},
        hostGetID \in [DomNode \cup {NullNode} -> HostResult] :
          GetInternalIDFromNative(node, hostGetID)

InitNative == \E shape \in HostShape, caps \in HostCaps : InitAttach(shape, caps)

SpecNative == InitNative /\ [][NextNative]_vars

(***************************************************************************)
(* Properties.                                                             *)
(***************************************************************************)
isAdd(op) == op.op = "add"
isAddNode(op) == op.op = "add" /\ op.type # ElementTypeRoot
hasEventFor(buffer, id) ==
  \E i \in 1..Len(bufferOperations(buffer)) : bufferOperations(buffer)[i].id = id

ParentBeforeChild(buffer) ==
  LET ops == bufferOperations(buffer) IN
  \A i \in 1..Len(ops) :
    (/\ isAddNode(ops[i])
     /\ \E j \in 1..Len(ops) : j # i /\ isAdd(ops[j]) /\ ops[j].id = ops[i].parentID)
    => \E j \in 1..(i - 1) : isAdd(ops[j]) /\ ops[j].id = ops[i].parentID

\* C1: in every emitted buffer, an Add-Node event whose parentId is the id of
\* another node added in the same buffer comes after that parent's Add event.
C1_ParentBeforeChild == emitCount > 0 => ParentBeforeChild(emitted)

\* C2: a node mounted and then unmounted with no flush in between has no Add
\* and no Remove event in the emitted buffer, and after the flush its id
\* resolves to no node and no node resolves to its id.
C2_Cancellation ==
  \A id \in cancelledAtEmit :
    /\ ~hasEventFor(emitted, id)
    /\ id \notin DOMAIN idToInternalInstanceMap
    /\ \A n \in DOMAIN internalInstanceToIDMap : internalInstanceToIDMap[n] # id

\* C3: once three non-root mount/unmount notifications are recorded and not
\* yet flushed, exactly one deferred flush is outstanding for them.
C3_BatchingCoalescence ==
  LET ops == decodeOperations(pendingOperations) IN
  (Len(ops) = 3 /\ \A i \in 1..3 : ops[i].id \notin rootIDSet)
  => Cardinality(timers) = 1

\* C4: a call of the decorated root-render entry point that returns r leaves
\* r's id in the root set, has called emit exactly once, leaves the pending
\* buffer empty, and with nothing pending before it the emitted buffer is
\* [rendererID, id, ADD, id, ROOT_TYPE, 0, ownerFlag].
C4_RootRenderSynchronousFlush ==
  [][\A e \in RootRenderMethods, r \in RootInst :
       (hostFns[<<"Mount", e>>].kind = "wrapper" /\ RootRender(e, r))
       => /\ r \in DOMAIN internalInstanceToIDMap'
          /\ internalInstanceToIDMap'[r] \in rootIDSet'
          /\ emitCount' = emitCount + 1
          /\ pendingOperations' = <<>>
          /\ pendingOperations = <<>> =>
               emitted' = <<rendererID, internalInstanceToIDMap'[r],
                            TREE_OPERATION_ADD, internalInstanceToIDMap'[r],
                            ElementTypeRoot, 0,
                            IF ElementOwner[r] # NullInst THEN 1 ELSE 0>>]_vars

\* The first root render after attach emitted the seven words of the scenario.
C4_Witness ==
  /\ emitCount = 1
  /\ emitted = <<rendererID, 1, TREE_OPERATION_ADD, 1, ElementTypeRoot, 0, 0>>
  /\ pendingOperations = <<>>
  /\ 1 \in rootIDSet

\* What getID(n) returns when called in the current state
getIDResult(n) == idOf(getID(EngineState, n), n)

\* C5: while a host node stays registered, getID returns the same id for it.
C5_IdStability ==
  [][\A n \in InstKey :
       (n \in DOMAIN internalInstanceToIDMap /\ n \in DOMAIN internalInstanceToIDMap')
       => getIDResult(n)' = getIDResult(n)]_vars

\* A was mounted under H after H had been registered: the parentID word of
\* A's pending Add is the id H already had.
C5_Witness ==
  /\ {"H", "A"} \subseteq DOMAIN internalInstanceToIDMap
  /\ internalInstanceToIDMap["H"] < internalInstanceToIDMap["A"]
  /\ \E i \in 1..Len(decodeOperations(pendingOperations)) :
       LET op == decodeOperations(pendingOperations)[i] IN
       /\ isAddNode(op)
       /\ op.id = internalInstanceToIDMap["A"]
       /\ op.parentID = internalInstanceToIDMap["H"]

\* C6: no two distinct registered host nodes have the same id.
C6_IdUniqueness ==
  \A n1, n2 \in DOMAIN internalInstanceToIDMap :
    n1 # n2 => internalInstanceToIDMap[n1] # internalInstanceToIDMap[n2]

\* Several nodes are registered after an unmount has released an id and a
\* root has been rendered.
C6_Witness ==
  /\ Cardinality(DOMAIN internalInstanceToIDMap) >= 3
  /\ uidCounter > Cardinality(DOMAIN internalInstanceToIDMap)
  /\ unmounted # {}
  /\ rootIDSet # {}

\* C7: the caller of a decorated entry point observes the original's outcome:
\* the original is applied once and no exception of the notification reaches it.
C7_InterceptionTransparency ==
  lastCall.outcome # "none" => (lastCall.origCalls = 1 /\ lastCall.outcome = "returned")

\* C8: after cleanup every entry point of the host holds its pre-attach function.
C8_DetachRestoresHost ==
  cleanedUp => \A s \in Slot : hostFns[s].kind # "absent" => hostFns[s] = Original(s)

flushedWithHeader(root) ==
  /\ emitCount' = emitCount + 1
  /\ Len(emitted') >= 2
  /\ emitted'[1] = rendererID
  /\ root \in DOMAIN internalInstanceToIDMap'
  /\ emitted'[2] = internalInstanceToIDMap'[root]

\* C11: every flush (of the root-render entry point or of a timer) calls
\* hook.emit once, and the emitted buffer starts with [rendererID, id of the
\* root passed to the flush], followed by what was pending.
C11_BatchHeaderAndSingleEmit ==
  [][/\ \A e \in RootRenderMethods, r \in RootInst :
          (hostFns[<<"Mount", e>>].kind = "wrapper" /\ RootRender(e, r))
          => flushedWithHeader(r)
     /\ \A t \in timers :
          FireTimer(t)
          => /\ flushedWithHeader(t.root)
             /\ SubSeq(emitted', 3, Len(emitted')) = pendingOperations]_vars

\* A timer flushed a root that was never rendered, with operations pending:
\* the only buffer emitted starts with the header of that root.
C11_Witness ==
  /\ emitCount = 1
  /\ "R" \in mounted /\ "R" \notin rendered
  /\ timers = {} /\ nextTimeoutID = 2
  /\ Len(emitted) > 2
  /\ emitted[1] = rendererID
  /\ emitted[2] = internalInstanceToIDMap["R"]

\* The step is a call of one of the three operations with this id
isMutationOf(id) ==
  \E path \in MutPath, value \in MutValue :
    SetInProps(id, path, value) \/ SetInState(id, path, value)
      \/ SetInContext(id, path, value)

\* C12: setInProps, setInState and setInContext called with an id that
\* resolves to no node change no props, state or context of any node,
\* invoke no re-render, append nothing to the pending buffer and return
\* without raising.
C12_StaleReferenceIsNoOp ==
  [][\A id \in MutID :
       (isNullish(lookup(id)) /\ isMutationOf(id))
       => /\ UNCHANGED <<nodeProps, nodeState, nodeContext, pendingOperations>>
          /\ lastMutation'.rerender = "none"
          /\ lastMutation'.outcome = "returned"]_vars

\* The one call made so far was setInProps with an id that had been handed
\* out and was released by the node's unmount: it returned with no effect.
C12_Witness ==
  /\ mutationCount = 1
  /\ lastMutation = noOp("setInProps", lastMutation.id)
  /\ lastMutation.id <= uidCounter
  /\ lastMutation.id \notin DOMAIN idToInternalInstanceMap
  /\ unmounted # {}

\* C13: setInProps, setInState or setInContext called for a registered node
\* with an empty path leaves the props, state and context of every node as
\* they were.
C13_EmptyPathIsNoOp ==
  [][\A id \in MutID, value \in MutValue :
       (/\ resolves(lookup(id))
        /\ \/ SetInProps(id, <<>>, value)
           \/ SetInState(id, <<>>, value)
           \/ SetInContext(id, <<>>, value))
       => UNCHANGED <<nodeProps, nodeState, nodeContext>>]_vars

\* new holds value at path and every other entry old has at its top level
writtenAt(new, old, path, value) ==
  /\ reducePath(new, path) = value
  /\ \A k \in DOMAIN old.m \ {Head(path)} : Get(new, k) = Get(old, k)

\* The call installed a new container, left the object installed before
\* unmodified, and invoked the host's re-render of the node
copiedOnWrite(old) ==
  /\ lastMutation'.installed
  /\ lastMutation'.previous = old
  /\ lastMutation'.outcome = "returned"
  /\ lastMutation'.rerender = "node"

\* C14: for a registered node and a non-empty path, each of setInProps,
\* setInState and setInContext installs a new container that holds the value
\* at the path and keeps every sibling entry, leaves the container installed
\* before unmodified, and then invokes the host's re-render for the node.
C14_CopyOnWriteMutation ==
  [][\A id \in MutID, path \in MutPath \ {<<>>}, value \in MutValue :
       resolves(lookup(id)) =>
         LET n == lookup(id) IN
         /\ SetInState(id, path, value)
            => /\ writtenAt(nodeState'[n], nodeState[n], path, value)
               /\ copiedOnWrite(nodeState[n])
         /\ SetInContext(id, path, value)
            => /\ writtenAt(nodeContext'[n], nodeContext[n], path, value)
               /\ copiedOnWrite(nodeContext[n])
         /\ SetInProps(id, path, value)
            => /\ writtenAt(nodeProps'[n], nodeProps[n], path, value)
               /\ copiedOnWrite(nodeProps[n])]_vars

\* Every Reconciler and root-render entry point attach decorates holds its wrapper
interceptionInstalled ==
  /\ \A m \in ReconcilerMethods :
       hostFns[<<"Reconciler", m>>].kind \in {"absent", "wrapper"}
  /\ hostFns[<<"Mount", "_renderNewRootComponent">>].kind \in {"absent", "wrapper"}
  /\ hostFns[<<"Mount", "_renderNewRootComponent">>].kind = "absent"
     => hostFns[<<"Mount", "renderComponent">>].kind \in {"absent", "wrapper"}

\* C15: the two lookup functions come from one branch, the first in the
\* order React Native, ComponentTree, React DOM whose probe the host
\* satisfies; when it satisfies none both are null and the entry points are
\* decorated all the same.
C15_CapabilitySelection ==
  LET native == nativeCaps.findNodeHandle /\ nativeCaps.nativeTagToRootNodeID
      tree == nativeCaps.ComponentTree
      dom == nativeCaps.getID /\ nativeCaps.getNode
  IN /\ getInternalIDFromNative = getNativeFromInternal
     /\ native => getNativeFromInternal = "ReactNative"
     /\ (~native /\ tree) => getNativeFromInternal = "ComponentTree"
     /\ (~native /\ ~tree /\ dom) => getNativeFromInternal = "ReactDOM"
     /\ (~native /\ ~tree /\ ~dom)
        => getNativeFromInternal = "null" /\ interceptionInstalled

\* A host that satisfies all three probes: the React Native pair alone is
\* installed, and a lookup went through it.
C15_Witness ==
  /\ \A c \in DOMAIN nativeCaps : nativeCaps[c]
  /\ getNativeFromInternal = "ReactNative"
  /\ getInternalIDFromNative = "ReactNative"
  /\ lastLookup.fn = "getInternalIDFromNative"
  /\ lastLookup.outcome = "value"

\* C16: with a lookup pair selected, a lookup whose host service raises, or
\* finds nothing, returns an absent result to its caller and does not raise.
C16_NativeLookupFailuresNeverPropagate ==
  (/\ lastLookup.fn # "none"
   /\ getNativeFromInternal # "null"
   /\ lastLookup.hostThrew \/ lastLookup.outcome # "value")
  => lastLookup.outcome = "absent"

\* The tuple recordMount supplies for a node that is not a root, read in the
\* state after the call: ownerID is the _owner object itself, or the number 0
suppliedAddNode(n) ==
  LET data == getData(n)
      owned == ElementKind[n] # "none" /\ ElementOwner[n] # NullInst
  IN [id |-> internalInstanceToIDMap'[n],
      type |-> data.type,
      parentID |-> internalInstanceToIDMap'[HostParent[n]],
      ownerID |-> IF owned
                  THEN [kind |-> "object", num |-> 0, obj |-> ElementOwner[n]]
                  ELSE [kind |-> "number", num |-> 0, obj |-> NullInst],
      displayName |-> [present |-> data.hasDisplayName, chars |-> data.displayName],
      key |-> [present |-> data.hasKey, chars |-> data.key]]

\* The words the step added at the start of the pending buffer
addedWords ==
  SubSeq(pendingOperations', 1, Len(pendingOperations') - Len(pendingOperations))

\* C17: the words recordMount adds for a node that is not a root, read as
\* [ADD, id, type, parentId, ownerId, nameLen, name bytes, keyLen, key bytes],
\* give back the tuple supplied, an absent displayName or key being length 0,
\* and are 7 + nameLen + keyLen words.
C17_RoundTripEncoding ==
  [][\A n \in Inst :
       (/\ hostFns[<<"Reconciler", "mountComponent">>].kind = "wrapper"
        /\ MountComponent(n)
        /\ internalInstanceToIDMap'[n] \notin rootIDSet)
       => /\ addedWords[1] = TREE_OPERATION_ADD
          /\ decodeAddNode(addedWords) = suppliedAddNode(n)
          /\ Len(addedWords) = 7 + addedWords[6] + addedWords[7 + addedWords[6]]]_vars

\* C18: once a mount or unmount notification of a node that is not a root
\* has added an operation to the pending buffer, a deferred flush is
\* outstanding, which will hand the operation to the transport.
C18_RecordedChangeIsScheduled ==
  [][\A n \in SchedInst \ RootInst :
       (/\ MountComponent(n) \/ UnmountComponent(n)
        /\ pendingOperations' # pendingOperations)
       => timers' # {}]_vars

\* C19: each root id has at most one outstanding timer, and
\* rootIDToTimeoutIDMap holds exactly the outstanding timers: a call for a
\* root whose timer is outstanding schedules nothing, and the entry is gone
\* once the timer has fired, so that a later call schedules a new one.
C19_AtMostOneTimerPerRoot ==
  /\ \A t1, t2 \in timers : t1.id = t2.id => t1 = t2
  /\ DOMAIN rootIDToTimeoutIDMap = {t.id : t \in timers}
  /\ \A t \in timers : rootIDToTimeoutIDMap[t.id] = t.timeoutID

\* The first timer of the root has fired and flushed, and a later call has
\* scheduled the second, which is outstanding.
C19_Witness ==
  /\ nextTimeoutID = 3
  /\ emitCount >= 1
  /\ \E t \in timers : t.timeoutID = 2 /\ timers = {t}
  /\ DOMAIN rootIDToTimeoutIDMap = {internalInstanceToIDMap["R"]}

\* C20: the unmount notification of a node whose id is in the root set
\* returns, adds exactly [REMOVE, id] at the end of the pending buffer,
\* removes the id from the root set and releases the node from both maps.
C20_RootUnmount ==
  [][\A n \in Inst :
       (/\ hostFns[<<"Reconciler", "unmountComponent">>].kind = "wrapper"
        /\ n \in DOMAIN internalInstanceToIDMap
        /\ internalInstanceToIDMap[n] \in rootIDSet
        /\ UnmountComponent(n))
       => LET id == internalInstanceToIDMap[n] IN
          /\ lastCall'.outcome = "returned"
          /\ pendingOperations' = pendingOperations \o <<TREE_OPERATION_REMOVE, id>>
          /\ id \notin rootIDSet'
          /\ n \notin DOMAIN internalInstanceToIDMap'
          /\ id \notin DOMAIN idToInternalInstanceMap']_vars

\* The node is a root or its element type is a class or function
significant(n) == n \in RootInst \/ ElementKind[n] = "function"

\* C22: every Add event of an emitted buffer is an Add-Root or is for a
\* class-like node: no Add event is emitted for a host element, a text node
\* or a node of unknown type.
C22_OnlySignificantNodesAreEmitted ==
  emitCount > 0 =>
    \A i \in 1..Len(bufferOperations(emitted)) :
      LET op == bufferOperations(emitted)[i] IN
      isAdd(op) => op.type \in {ElementTypeRoot, ElementTypeClass}

\* The parent of a node in the live host tree (NullInst: none), by getChildren
TreeParent(n) ==
  IF \E p \in Inst : \E i \in 1..Len(getChildren(p)) : getChildren(p)[i] = n
  THEN CHOOSE p \in Inst : \E i \in 1..Len(getChildren(p)) : getChildren(p)[i] = n
  ELSE NullInst

\* The nearest ancestor of n that is a root or class-like (NullInst: none)
RECURSIVE nearestSignificantAncestor(_)
nearestSignificantAncestor(n) ==
  LET p == TreeParent(n) IN
  IF p = NullInst THEN NullInst
  ELSE IF significant(p) THEN p
  ELSE nearestSignificantAncestor(p)

\* C23: the parentId word of every emitted Add-Node event is the id of a
\* registered node that is a root or class-like, never of an elided node or
\* of a null parent link, and it is the id of the node's nearest such
\* ancestor in the host tree.
C23_ParentIdResolution ==
  emitCount > 0 =>
    \A i \in 1..Len(bufferOperations(emitted)) :
      LET op == bufferOperations(emitted)[i] IN
      isAddNode(op) =>
        /\ op.parentID \in DOMAIN idToInternalInstanceMap
        /\ idToInternalInstanceMap[op.parentID] # NullInst
        /\ significant(idToInternalInstanceMap[op.parentID])
        /\ (/\ op.id \in DOMAIN idToInternalInstanceMap
            /\ idToInternalInstanceMap[op.id] # NullInst
            /\ nearestSignificantAncestor(idToInternalInstanceMap[op.id]) # NullInst)
           => idToInternalInstanceMap[op.parentID] =
                nearestSignificantAncestor(idToInternalInstanceMap[op.id])

isPrefix(s, t) == Len(s) <= Len(t) /\ SubSeq(t, 1, Len(s)) = s

\* C24: between two flushes the pending buffer only grows at its end: every
\* step that emits nothing leaves what was pending at the start of the
\* buffer, in the order recorded.
C24_RecordedOrderIsPreserved ==
  [][emitCount' = emitCount => isPrefix(pendingOperations, pendingOperations')]_vars

\* The top of n's chain of parents in the host tree
RECURSIVE treeRoot(_)
treeRoot(n) == IF TreeParent(n) = NullInst THEN n ELSE treeRoot(TreeParent(n))

\* C27: with two or more roots attached, every Add event of a buffer whose
\* header names root id r is for r's node or for a node of r's tree.
C27_BatchesArePerRoot ==
  (emitCount > 0 /\ Cardinality(rootIDSet) >= 2) =>
    \A i \in 1..Len(bufferOperations(emitted)) :
      LET op == bufferOperations(emitted)[i] IN
      (/\ isAdd(op)
       /\ op.id \in DOMAIN idToInternalInstanceMap
       /\ idToInternalInstanceMap[op.id] # NullInst)
      => treeRoot(idToInternalInstanceMap[op.id]) = idToInternalInstanceMap[emitted[2]]

\* C21: every id of windowUnmounts at the last flush (a registered non-root
\* node, not mounted in the same batch, that was unmounted) has exactly one
\* Remove event in the buffer emitted by that flush, and from then on the id
\* resolves to no node and no node resolves to the id.
C21_UnmountEmitsRemoveThenReleases ==
  \A id \in unmountsAtEmit :
    LET ops == bufferOperations(emitted) IN
    /\ Cardinality({i \in 1..Len(ops) :
                      ops[i].op = "remove" /\ ops[i].id = id}) = 1
    /\ id \notin DOMAIN idToInternalInstanceMap
    /\ \A n \in DOMAIN internalInstanceToIDMap : internalInstanceToIDMap[n] # id

\* A buffer was emitted after the unmount of a node mounted before the
\* previous flush
C21_Witness ==
  /\ emitCount = 2
  /\ unmountsAtEmit # {}
  /\ unmounted # {}

\* C25: every flush leaves the pending buffer empty; a timer flush with
\* nothing pending emits the two header words only; and at every moment the
\* operations recorded and not yet emitted are exactly the pending ones, so
\* that none is emitted in two buffers.
C25_BufferClearedOnFlush ==
  [][/\ emitCount' # emitCount => pendingOperations' = <<>>
     /\ (emitCount' # emitCount /\ timers' # timers /\ pendingOperations = <<>>)
          => (/\ Len(emitted') = 2
              /\ emitted'[1] = rendererID
              /\ emitted'[2] \in DOMAIN idToInternalInstanceMap')
     /\ unflushed' = Len(decodeOperations(pendingOperations'))]_vars

\* A second flush, by a timer, found nothing pending after a first flush
\* that emitted an Add
C25_Witness ==
  /\ emitCount = 2
  /\ Len(emitted) = 2
  /\ pendingOperations = <<>>
  /\ liveIDs # {}

\* C26: over the buffers emitted so far, in order, no Add event is for an id
\* whose last event was an Add, and no Remove event is for an id without an
\* earlier Add not yet matched by a Remove.
C26_DeDuplicatedStream == streamOK

=============================================================================
